---------------------------- MODULE Spec2Model ----------------------------
(***************************************************************************)
(* A model of src/frontend/public/examples/hello.cpp: the entry routine    *)
(* main, statement by statement, together with the part of its host        *)
(* environment that could influence it (command-line arguments, the state  *)
(* of standard input, and a standard output sink that may start rejecting  *)
(* writes).                                                                *)
(*                                                                         *)
(* Two executions, "A" and "B", are modelled side by side so that          *)
(* statements relating two runs (determinism, independence of the input)   *)
(* can be checked.  Each run has its own environment, fixed when the run   *)
(* starts, and its own copy of main's locals.                              *)
(***************************************************************************)
EXTENDS Integers, Sequences, FiniteSets, TLC

(***************************************************************************)
(* Bounds of the model.                                                    *)
(***************************************************************************)
\* Largest number of command-line arguments handed to a run.
MaxArgs == 1

\* failAt ranges over 0..MaxFailAt: 0 means the sink accepts every write,
\* k > 0 means the k-th line written to the sink, and every later one, is
\* rejected.  main writes four lines, so 4 covers a failure of each write.
MaxFailAt == 4

\* Width of the C++ type int in bits.  The language guarantees 16 or more.
IntBits == 16

(***************************************************************************)
(* The two executions and the states standard input can be in.            *)
(***************************************************************************)
Runs == {"A", "B"}

StdinStates == {"data", "empty", "closed"}

VARIABLES
  args,      \* args[r]   : number of command-line arguments of run r
  stdin,     \* stdin[r]  : state of run r's standard input
  failAt,    \* failAt[r] : which write the sink of run r first rejects (0: none)
  pc,        \* pc[r]     : the statement run r executes next
  out,       \* out[r]    : the lines run r's standard output has received
  coutBad,   \* coutBad[r]: std::cout of run r is in a failed state
  numbers,   \* main's local  std::vector<int> numbers
  it,        \* the iterator of the range-for, as an index into numbers
  num,       \* main's loop variable  int num
  sum,       \* main's local  int sum
  message,   \* main's local  std::string message
  ret,       \* the value main returned to the host (-1: nothing returned yet)
  steps      \* history: number of statements run r has executed

env  == <<args, stdin, failAt>>
vars == <<args, stdin, failAt, pc, out, coutBad, numbers, it, num, sum,
          message, ret, steps>>

(***************************************************************************)
(* Values and library functions main uses.                                 *)
(***************************************************************************)
\* Faulty variant of the initializer list: a last element one too large.
\* C9 must notice it.
NumbersLiteralLarger == <<1, 2, 3, 4, 6>>

\* The initializer list of line 10.
NumbersLiteral == <<1, 2, 3, 4, 5>>

\* The string literal of line 21.
MessageLiteral == "C++ is powerful"

MinInt == -(2^(IntBits - 1))
MaxInt == 2^(IntBits - 1) - 1

\* sum += num on int.  A signed addition whose result does not fit is
\* undefined behaviour: any int may result.
AddInt(a, b) ==
  IF a + b \in MinInt..MaxInt THEN {a + b} ELSE MinInt..MaxInt

\* Faulty variant of length(): counts a terminating NUL as well, as
\* sizeof on the literal would.  C4 must notice it.
LengthWithTerminator(s) == Len(s) + 1

\* std::string::length(): the number of code units of the string.
Length(s) == Len(s)

Digit(d) ==
  CASE d = 0 -> "0" [] d = 1 -> "1" [] d = 2 -> "2" [] d = 3 -> "3"
    [] d = 4 -> "4" [] d = 5 -> "5" [] d = 6 -> "6" [] d = 7 -> "7"
    [] d = 8 -> "8" [] d = 9 -> "9"

RECURSIVE ToDecimalNat(_)
ToDecimalNat(n) ==
  IF n < 10 THEN Digit(n) ELSE ToDecimalNat(n \div 10) \o Digit(n % 10)

\* operator<< on an integer: its decimal representation.
ToDecimal(n) == IF n < 0 THEN "-" \o ToDecimalNat(-n) ELSE ToDecimalNat(n)

\* The sink takes the next line unless the environment makes this write fail.
SinkAccepts(r) == failAt[r] = 0 \/ Len(out[r]) + 1 < failAt[r]

\* std::cout << ... << std::endl for one line of text.  On a stream that has
\* already failed, the insertion does nothing.  Otherwise the line is
\* written and flushed; if the sink rejects it the stream goes into its
\* failed state.  No exception is raised either way.
Cout(r, line) ==
  IF coutBad[r]
    THEN UNCHANGED <<out, coutBad>>
    ELSE IF SinkAccepts(r)
      THEN /\ out' = [out EXCEPT ![r] = Append(@, line)]
           /\ UNCHANGED coutBad
      ELSE /\ coutBad' = [coutBad EXCEPT ![r] = TRUE]
           /\ UNCHANGED out

\* Control passes from one statement to the next.
Goto(r, from, to) ==
  /\ pc[r] = from
  /\ pc' = [pc EXCEPT ![r] = to]
  /\ steps' = [steps EXCEPT ![r] = @ + 1]

(***************************************************************************)
(* The initial state: every run is about to enter main, in some            *)
(* environment.                                                            *)
(***************************************************************************)
Init ==
  /\ args \in [Runs -> 0..MaxArgs]
  /\ stdin \in [Runs -> StdinStates]
  /\ failAt \in [Runs -> 0..MaxFailAt]
  /\ pc = [r \in Runs |-> "L7"]
  /\ out = [r \in Runs |-> <<>>]
  /\ coutBad = [r \in Runs |-> FALSE]
  /\ numbers = [r \in Runs |-> <<>>]
  /\ it = [r \in Runs |-> 0]
  /\ num = [r \in Runs |-> 0]
  /\ sum = [r \in Runs |-> 0]
  /\ message = [r \in Runs |-> ""]
  /\ ret = [r \in Runs |-> -1]
  /\ steps = [r \in Runs |-> 0]

(***************************************************************************)
(* The statements of main.                                                 *)
(***************************************************************************)
\* Faulty variant of line 7: a different greeting.  C1 must notice it.
HelloWrongText(r) ==
  /\ Goto(r, "L7", "L10")
  /\ Cout(r, "Hello, World!")
  /\ UNCHANGED <<env, numbers, it, num, sum, message, ret>>

\* Faulty variant of line 7: greets by a name read from standard input when
\* there is one, consuming it.  C6 must notice it.
HelloFromStdin(r) ==
  /\ Goto(r, "L7", "L10")
  /\ Cout(r, IF stdin[r] = "data" THEN "Hello, user!" ELSE "Hello, C++ World!")
  /\ stdin' = [stdin EXCEPT ![r] = IF @ = "data" THEN "empty" ELSE @]
  /\ UNCHANGED <<args, failAt, numbers, it, num, sum, message, ret>>

\* line 7
Hello(r) ==
  /\ Goto(r, "L7", "L10")
  /\ Cout(r, "Hello, C++ World!")
  /\ UNCHANGED <<env, numbers, it, num, sum, message, ret>>

\* line 10
MakeNumbers(r) ==
  /\ Goto(r, "L10", "L13")
  /\ numbers' = [numbers EXCEPT ![r] = NumbersLiteral]
  /\ UNCHANGED <<env, out, coutBad, it, num, sum, message, ret>>

\* Faulty variant of line 13: "int sum;" without an initializer, so that sum
\* holds an indeterminate value (two of them stand for all).  C5 must notice.
InitSumIndeterminate(r) ==
  /\ Goto(r, "L13", "L14")
  /\ \E v \in {0, 1} : sum' = [sum EXCEPT ![r] = v]
  /\ UNCHANGED <<env, out, coutBad, numbers, it, num, message, ret>>

\* line 13
InitSum(r) ==
  /\ Goto(r, "L13", "L14")
  /\ sum' = [sum EXCEPT ![r] = 0]
  /\ UNCHANGED <<env, out, coutBad, numbers, it, num, message, ret>>

\* line 14, entering the range-for: the iterator is set to numbers.begin()
ForBegin(r) ==
  /\ Goto(r, "L14", "loop")
  /\ it' = [it EXCEPT ![r] = 1]
  /\ UNCHANGED <<env, out, coutBad, numbers, num, sum, message, ret>>

\* Faulty variant of the loop body: "sum = num" for "sum += num".  C2 must
\* notice it.
LoopIterAssign(r) ==
  /\ it[r] <= Len(numbers[r])
  /\ Goto(r, "loop", "loop")
  /\ num' = [num EXCEPT ![r] = numbers[r][it[r]]]
  /\ sum' = [sum EXCEPT ![r] = numbers[r][it[r]]]
  /\ it' = [it EXCEPT ![r] = @ + 1]
  /\ UNCHANGED <<env, out, coutBad, numbers, message, ret>>

\* Faulty variant of the loop: num is a reference and the body clears the
\* element after adding it.  C8 must notice it.
LoopIterByRef(r) ==
  /\ it[r] <= Len(numbers[r])
  /\ Goto(r, "loop", "loop")
  /\ num' = [num EXCEPT ![r] = 0]
  /\ \E s \in AddInt(sum[r], numbers[r][it[r]]) :
       sum' = [sum EXCEPT ![r] = s]
  /\ numbers' = [numbers EXCEPT ![r][it[r]] = 0]
  /\ it' = [it EXCEPT ![r] = @ + 1]
  /\ UNCHANGED <<env, out, coutBad, message, ret>>

\* Faulty variant of the loop: the elements are visited from the last to the
\* first.  The final sum is the same; C10 must notice the order.
LoopIterReverse(r) ==
  /\ it[r] <= Len(numbers[r])
  /\ Goto(r, "loop", "loop")
  /\ num' = [num EXCEPT ![r] = numbers[r][Len(numbers[r]) + 1 - it[r]]]
  /\ \E s \in AddInt(sum[r], numbers[r][Len(numbers[r]) + 1 - it[r]]) :
       sum' = [sum EXCEPT ![r] = s]
  /\ it' = [it EXCEPT ![r] = @ + 1]
  /\ UNCHANGED <<env, out, coutBad, numbers, message, ret>>

\* lines 14-16, one iteration: the iterator is not at end(), num is a copy
\* of the element it points to, sum += num, and the iterator advances
LoopIter(r) ==
  /\ it[r] <= Len(numbers[r])
  /\ Goto(r, "loop", "loop")
  /\ num' = [num EXCEPT ![r] = numbers[r][it[r]]]
  /\ \E s \in AddInt(sum[r], numbers[r][it[r]]) :
       sum' = [sum EXCEPT ![r] = s]
  /\ it' = [it EXCEPT ![r] = @ + 1]
  /\ UNCHANGED <<env, out, coutBad, numbers, message, ret>>

\* line 14, the iterator has reached numbers.end()
LoopExit(r) ==
  /\ it[r] > Len(numbers[r])
  /\ Goto(r, "loop", "L18")
  /\ UNCHANGED <<env, out, coutBad, numbers, it, num, sum, message, ret>>

\* line 18
PrintSum(r) ==
  /\ Goto(r, "L18", "L21")
  /\ Cout(r, "Sum of numbers: " \o ToDecimal(sum[r]))
  /\ UNCHANGED <<env, numbers, it, num, sum, message, ret>>

\* line 21
BindMessage(r) ==
  /\ Goto(r, "L21", "L22")
  /\ message' = [message EXCEPT ![r] = MessageLiteral]
  /\ UNCHANGED <<env, out, coutBad, numbers, it, num, sum, ret>>

\* line 22
PrintMessage(r) ==
  /\ Goto(r, "L22", "L23")
  /\ Cout(r, "Message: " \o message[r])
  /\ UNCHANGED <<env, numbers, it, num, sum, message, ret>>

\* line 23
PrintLength(r) ==
  /\ Goto(r, "L23", "L25")
  /\ Cout(r, "Length: " \o ToDecimal(Length(message[r])))
  /\ UNCHANGED <<env, numbers, it, num, sum, message, ret>>

\* Faulty variant of line 25: "return 1".  C3 must notice it.
ReturnFailure(r) ==
  /\ Goto(r, "L25", "done")
  /\ ret' = [ret EXCEPT ![r] = 1]
  /\ UNCHANGED <<env, out, coutBad, numbers, it, num, sum, message>>

\* Variant of line 25 that reports a failed stream: "return std::cout ? 0 : 1".
\* C7 must notice it.
ReturnStreamState(r) ==
  /\ Goto(r, "L25", "done")
  /\ ret' = [ret EXCEPT ![r] = IF coutBad[r] THEN 1 ELSE 0]
  /\ UNCHANGED <<env, out, coutBad, numbers, it, num, sum, message>>

\* line 25
Return(r) ==
  /\ Goto(r, "L25", "done")
  /\ ret' = [ret EXCEPT ![r] = 0]
  /\ UNCHANGED <<env, out, coutBad, numbers, it, num, sum, message>>

\* One statement of run r.
Step(r) ==
  \/ Hello(r)
  \/ MakeNumbers(r)
  \/ InitSum(r)
  \/ ForBegin(r)
  \/ LoopIter(r)
  \/ LoopExit(r)
  \/ PrintSum(r)
  \/ BindMessage(r)
  \/ PrintMessage(r)
  \/ PrintLength(r)
  \/ Return(r)

Next == \E r \in Runs : Step(r)

\* Runs in any environment, write failures included.
Spec == Init /\ [][Next]_vars

\* Normal operation: the sink accepts every write.
NormalInit == Init /\ \A r \in Runs : failAt[r] = 0

NormalSpec == NormalInit /\ [][Next]_vars

\* The host keeps executing a started process: a run that can take a step
\* eventually takes it.
FairSpec == Spec /\ \A r \in Runs : WF_vars(Step(r))

(***************************************************************************)
(* Helpers for the properties.                                             *)
(***************************************************************************)
\* The four lines of the specification's section 6.
ExpectedOutput ==
  << "Hello, C++ World!",
     "Sum of numbers: 15",
     "Message: C++ is powerful",
     "Length: 15" >>

IsPrefix(s, t) == Len(s) <= Len(t) /\ SubSeq(t, 1, Len(s)) = s

RECURSIVE SeqSum(_)
SeqSum(s) == IF s = <<>> THEN 0 ELSE Head(s) + SeqSum(Tail(s))

\* Number of loop iterations run r has completed.
Iterations(r) == IF it[r] = 0 THEN 0 ELSE it[r] - 1

\* Statements main executes from entry to return: ten straight-line
\* statements and loop tests plus one step per element of numbers.
RunLength == 10 + Len(NumbersLiteral)

Done(r) == pc[r] = "done"

(***************************************************************************)
(* C3.  Termination: every run reaches the return statement of main, after *)
(* exactly five loop iterations and a fixed, bounded number of steps, and  *)
(* returns 0 to the host; it then stays terminated.                        *)
(***************************************************************************)
Terminated(r) ==
  /\ Done(r)
  /\ ret[r] = 0
  /\ Iterations(r) = 5
  /\ steps[r] = RunLength

C3_Terminates ==
  /\ <>[](\A r \in Runs : Terminated(r))
  /\ [](\A r \in Runs : steps[r] <= RunLength)

C3_Witness == \A r \in Runs : Terminated(r)

(***************************************************************************)
(* C1.  In normal operation every complete run has emitted exactly the     *)
(* four lines "Hello, C++ World!", "Sum of numbers: 15",                   *)
(* "Message: C++ is powerful", "Length: 15", in this order; at every point *)
(* of a run the output so far is a prefix of these four lines, so no fifth *)
(* line ever appears.                                                      *)
(***************************************************************************)
C1_FourLines ==
  \A r \in Runs :
    /\ IsPrefix(out[r], ExpectedOutput)
    /\ Len(out[r]) <= 4
    /\ Done(r) => out[r] = ExpectedOutput

C1_Witness ==
  \E r \in Runs : Done(r) /\ Len(out[r]) = 4 /\ out[r][4] = "Length: 15"

(***************************************************************************)
(* C2.  Once the traversal has finished, sum is the arithmetic sum of the  *)
(* elements of numbers, which is 15, and the "Sum of numbers:" line        *)
(* carries the decimal representation of that final value.                 *)
(***************************************************************************)
AfterLoop == {"L18", "L21", "L22", "L23", "L25", "done"}

AfterPrintSum == AfterLoop \ {"L18"}

C2_SumPrinted ==
  \A r \in Runs :
    /\ pc[r] \in AfterLoop =>
         /\ sum[r] = SeqSum(numbers[r])
         /\ sum[r] = 15
    /\ pc[r] \in AfterPrintSum =>
         /\ Len(out[r]) >= 2
         /\ out[r][2] = "Sum of numbers: " \o ToDecimal(sum[r])
         /\ out[r][2] = "Sum of numbers: 15"

C2_Witness ==
  \E r \in Runs :
    pc[r] = "L21" /\ sum[r] = 15 /\ out[r][2] = "Sum of numbers: 15"

(***************************************************************************)
(* C4.  The "Message:" line carries the string bound to message, which is  *)
(* the unmodified literal "C++ is powerful", and the "Length:" line        *)
(* carries the number of code units of that string, 15.                    *)
(***************************************************************************)
\* The code units of the literal of line 21, one by one.
MessageCodeUnits ==
  << "C", "+", "+", " ", "i", "s", " ",
     "p", "o", "w", "e", "r", "f", "u", "l" >>

C4_MessageAndLength ==
  \A r \in Runs :
    /\ pc[r] \in {"L23", "L25", "done"} =>
         /\ message[r] = "C++ is powerful"
         /\ Len(out[r]) >= 3
         /\ out[r][3] = "Message: " \o message[r]
    /\ pc[r] \in {"L25", "done"} =>
         /\ Len(out[r]) >= 4
         /\ out[r][4] = "Length: " \o ToDecimal(Len(MessageCodeUnits))
         /\ out[r][4] = "Length: 15"

C4_Witness ==
  \E r \in Runs :
    /\ pc[r] = "L25"
    /\ out[r][3] = "Message: C++ is powerful"
    /\ out[r][4] = "Length: 15"

(***************************************************************************)
(* C5.  Determinism: two executions started in the same environment and    *)
(* stepped side by side are, after the same number of steps, in the same   *)
(* state: same position, same locals, same output so far, same exit value. *)
(* So no step has more than one possible outcome.                          *)
(***************************************************************************)
SameEnv(a, b) ==
  args[a] = args[b] /\ stdin[a] = stdin[b] /\ failAt[a] = failAt[b]

\* What main has computed and where it is.
Locals(r) == <<pc[r], numbers[r], it[r], num[r], sum[r], message[r], ret[r]>>

\* The whole state of a run.
RunState(r) == <<Locals(r), out[r], coutBad[r]>>

C5_Deterministic ==
  \A a, b \in Runs :
    SameEnv(a, b) /\ steps[a] = steps[b] => RunState(a) = RunState(b)

C5_Witness ==
  /\ SameEnv("A", "B")
  /\ Done("A") /\ Done("B")
  /\ out["A"] = out["B"] /\ ret["A"] = ret["B"]

(***************************************************************************)
(* C6.  No input is consumed: whatever the command-line arguments and      *)
(* whatever the state of standard input, the run terminates, its state     *)
(* after any number of steps does not depend on them, its output is the    *)
(* four lines (when the sink accepts them), its exit value is 0, and the   *)
(* arguments and standard input are left as they were.                     *)
(***************************************************************************)
InputIndependent ==
  /\ \A a, b \in Runs :
       failAt[a] = failAt[b] /\ steps[a] = steps[b] => RunState(a) = RunState(b)
  /\ \A r \in Runs :
       Done(r) => ret[r] = 0 /\ (failAt[r] = 0 => out[r] = ExpectedOutput)

C6_NoInputConsumed ==
  /\ [](InputIndependent)
  /\ [][args' = args /\ stdin' = stdin]_vars
  /\ <>(\A r \in Runs : Done(r))

C6_Witness ==
  /\ args["A"] # args["B"]
  /\ stdin["A"] = "data" /\ stdin["B"] = "closed"
  /\ Done("A") /\ Done("B")
  /\ out["A"] = ExpectedOutput /\ out["B"] = ExpectedOutput
  /\ ret["A"] = 0 /\ ret["B"] = 0

(***************************************************************************)
(* C7.  A write error is neither detected nor reported: a run whose output *)
(* stream has failed still has a next statement to execute until it        *)
(* returns, it returns only after executing every statement, it returns 0, *)
(* and at every step its position and locals are those of a run whose      *)
(* writes all succeed.                                                     *)
(***************************************************************************)
C7_WriteErrorIgnored ==
  /\ \A r \in Runs :
       /\ ret[r] \in {-1, 0}
       /\ coutBad[r] =>
            IF Done(r)
              THEN ret[r] = 0 /\ steps[r] = RunLength
              ELSE ENABLED Step(r)
  /\ \A a, b \in Runs :
       steps[a] = steps[b] => Locals(a) = Locals(b)

C7_Witness ==
  /\ failAt["A"] = 2 /\ failAt["B"] = 0
  /\ Done("A") /\ Done("B")
  /\ coutBad["A"] /\ Len(out["A"]) = 1
  /\ ret["A"] = 0 /\ ret["B"] = 0

(***************************************************************************)
(* C8.  numbers is never modified after its initialisation on line 10 and  *)
(* message is never modified after its binding on line 21: from then on    *)
(* they equal (1, 2, 3, 4, 5) and "C++ is powerful".  A traversal step     *)
(* changes, of main's data, only sum (and the loop's own iterator and      *)
(* loop variable); an output step changes only the output stream.          *)
(***************************************************************************)
AfterLine10 == {"L13", "L14", "loop"} \cup AfterLoop

AfterLine21 == {"L22", "L23", "L25", "done"}

OutputSteps == {"L7", "L18", "L22", "L23"}

FrameOf(r) ==
  /\ pc[r] # "L10" => numbers'[r] = numbers[r]
  /\ pc[r] \in AfterLine10 =>
       numbers[r] = <<1, 2, 3, 4, 5>> /\ numbers'[r] = <<1, 2, 3, 4, 5>>
  /\ pc[r] # "L21" => message'[r] = message[r]
  /\ pc[r] \in AfterLine21 =>
       message[r] = "C++ is powerful" /\ message'[r] = "C++ is powerful"
  /\ pc[r] \in {"L14", "loop"} =>
       /\ out'[r] = out[r] /\ coutBad'[r] = coutBad[r]
       /\ ret'[r] = ret[r]
  /\ pc[r] \in OutputSteps =>
       /\ sum'[r] = sum[r] /\ it'[r] = it[r] /\ num'[r] = num[r]
       /\ ret'[r] = ret[r]

C8_Frame == [][\A r \in Runs : FrameOf(r)]_vars

C8_Witness ==
  \E r \in Runs :
    /\ Done(r)
    /\ numbers[r] = <<1, 2, 3, 4, 5>>
    /\ message[r] = "C++ is powerful"
    /\ sum[r] = 15
    /\ Len(out[r]) = 4

(***************************************************************************)
(* C9.  The accumulator never overflows: sum always lies in 0..15, every   *)
(* value it takes and every addition the loop is about to perform fits a   *)
(* signed integer of any width from 5 bits up to the width of int, so no   *)
(* addition wraps.                                                         *)
(***************************************************************************)
FitsSigned(w, v) == v \in -(2^(w - 1)) .. (2^(w - 1) - 1)

C9_NoOverflow ==
  \A r \in Runs :
    /\ sum[r] \in 0..15
    /\ \A w \in 5..IntBits :
         /\ FitsSigned(w, sum[r])
         /\ pc[r] = "loop" /\ it[r] <= Len(numbers[r]) =>
              FitsSigned(w, sum[r] + numbers[r][it[r]])

\* The final value is reached, and it is the one that needs all of 5 bits.
C9_Witness ==
  \E r \in Runs :
    pc[r] = "loop" /\ sum[r] = 15 /\ FitsSigned(5, sum[r]) /\ ~FitsSigned(4, sum[r])

(***************************************************************************)
(* C10.  The traversal visits the elements of numbers in forward index     *)
(* order, each exactly once: every iteration reads the element after the   *)
(* one read before and adds it to sum.  After k iterations sum is the sum  *)
(* of the first k elements, so sum takes the values 0, 1, 3, 6, 10, 15 in  *)
(* this order and never decreases, and the "Sum of numbers:" line is       *)
(* written only after the fifth iteration.                                 *)
(***************************************************************************)
PartialSums == <<0, 1, 3, 6, 10, 15>>

LoopInv(r) ==
  pc[r] = "loop" =>
    /\ Iterations(r) \in 0..5
    /\ sum[r] = SeqSum(SubSeq(numbers[r], 1, Iterations(r)))
    /\ sum[r] = PartialSums[Iterations(r) + 1]
    /\ Iterations(r) > 0 => num[r] = numbers[r][Iterations(r)]

TraversalStep(r) ==
  /\ LoopInv(r)
  /\ LoopInv(r)'
  /\ sum'[r] >= sum[r]
  /\ sum'[r] # sum[r] =>
       /\ pc[r] = "loop"
       /\ it'[r] = it[r] + 1
       /\ sum'[r] = sum[r] + numbers[r][it[r]]
  /\ it'[r] # it[r] => it'[r] = it[r] + 1
  /\ pc[r] = "L18" /\ steps'[r] # steps[r] =>
       Iterations(r) = 5 /\ sum[r] = 15
  /\ Len(out'[r]) >= 2 => Iterations(r) = 5

C10_LoopInvariant == [][\A r \in Runs : TraversalStep(r)]_vars

C10_Witness ==
  \E r \in Runs : pc[r] = "loop" /\ Iterations(r) = 3 /\ sum[r] = 6 /\ num[r] = 3

=============================================================================
